---- MODULE Spec2Model ----
(***************************************************************************)
(* Model of backend/src/llm_tools/crm_tools.py: the CRM toolkit that       *)
(* exposes six contact operations to LLM agents through direct methods,    *)
(* a function-calling / tool-use dispatcher and LangChain tool objects,    *)
(* all over one HTTP client.                                               *)
(*                                                                         *)
(* The program keeps no state between calls, so a behaviour is: one input  *)
(* (operation name, argument mapping, and the answers the backend gives    *)
(* to the first and second HTTP call) is drawn in Init, and each action    *)
(* runs one entry point of the toolkit on it and records what came back.   *)
(* The module is modelled as imported with LangChain installed             *)
(* (LANGCHAIN_AVAILABLE = True), the only case in which the tool classes   *)
(* exist.  Further specifications over the same state cover the schema    *)
(* adapters called repeatedly, the bare client methods, and the lifetime   *)
(* of a toolkit and of the HTTP session it opens.                          *)
(***************************************************************************)
EXTENDS Integers, Sequences, FiniteSets, TLC

VARIABLES
    input,      \* [name, args, r1, r2]: the call and the backend's answers
    out,        \* per execution path: the outcome of running it on input
    emitted,    \* per schema adapter: the schema list it returned
    reply,      \* per client method: what a bare call of it handed back
    toolkits    \* per owner: the toolkit object it holds and its HTTP session

vars == <<input, out, emitted, reply, toolkits>>

----------------------------------------------------------------------------
(* Bounds of the model *)

\* longest tag list a caller supplies
MaxTags == 2
\* most optional (non-required) arguments supplied in one call
MaxOptional == 2

----------------------------------------------------------------------------
(* Python values carried by arguments and request payloads.  Every value  *)
(* is a tagged sequence of strings so that values of different Python     *)
(* types can be compared: <<"str", s>>, <<"int", digits>>, <<"bool", b>>, *)
(* <<"list", e1, ..>>, <<"dict", k1, v1, ..>>.                             *)

PyStr(s) == <<"str", s>>
PyInt(n) == <<"int", ToString(n)>>
PyBool(b) == <<"bool", IF b THEN "True" ELSE "False">>
PyList(seq) == <<"list">> \o seq
PyDict(seq) == <<"dict">> \o seq

\* Python truth value testing, as used by every `if x:` of the module
Truthy(v) ==
    CASE v[1] = "str"  -> v[2] # ""
      [] v[1] = "int"  -> v[2] # "0"
      [] v[1] = "bool" -> v[2] = "True"
      [] v[1] = "list" -> Len(v) > 1
      [] v[1] = "dict" -> Len(v) > 1
      [] OTHER -> FALSE

RECURSIVE JoinFrom(_, _, _)
JoinFrom(sep, v, i) ==
    IF i > Len(v) THEN ""
    ELSE IF i = Len(v) THEN v[i]
    ELSE v[i] \o sep \o JoinFrom(sep, v, i + 1)

\* ",".join(tags) on a list value
Join(sep, v) == PyStr(JoinFrom(sep, v, 2))

\* f"{contact_id}" of a string value
Format(v) == v[2]

\* the mapping m with key k set to v (dict item assignment)
SetItem(m, k, v) == [x \in DOMAIN m \cup {k} |-> IF x = k THEN v ELSE m[x]]

\* the empty dict {} (also stands for params=None: no query is sent)
EmptyDict == [x \in {} |-> <<>>]

\* None
PyNone == <<"none">>

\* m with key k set to v when v is truthy: `if v: m[k] = v`
AddIfTruthy(m, k, v) == IF Truthy(v) THEN SetItem(m, k, v) ELSE m

----------------------------------------------------------------------------
(* JSON values returned by the backend and by the direct methods.  Every  *)
(* value has the same shape: t is "object", "array" or "string"; s is the *)
(* text of a string; m is the ordered list of members [k, v] (k = "" for   *)
(* array elements).                                                        *)

JObject(members) == [t |-> "object", s |-> "", m |-> members]
JArray(members) == [t |-> "array", s |-> "", m |-> members]
JString(text) == [t |-> "string", s |-> text, m |-> <<>>]
Member(key, val) == [k |-> key, v |-> val]
NoValue == [t |-> "none", s |-> "", m |-> <<>>]

\* result[key] = val on a parsed JSON object: replace in place or append
SetKey(obj, key, val) ==
    IF \E i \in 1..Len(obj.m) : obj.m[i].k = key
    THEN [obj EXCEPT !.m = [i \in 1..Len(obj.m) |->
                               IF obj.m[i].k = key THEN Member(key, val) ELSE obj.m[i]]]
    ELSE [obj EXCEPT !.m = Append(obj.m, Member(key, val))]

HasKey(obj, key) == obj.t = "object" /\ \E i \in 1..Len(obj.m) : obj.m[i].k = key

ValueAt(obj, key) == obj.m[CHOOSE i \in 1..Len(obj.m) : obj.m[i].k = key].v

RECURSIVE Spaces(_)
Spaces(n) == IF n = 0 THEN "" ELSE " " \o Spaces(n - 1)

\* json.dumps(value, indent=indent); indent = -1 stands for indent=None.
\* Strings of the model hold no character that JSON escapes.
RECURSIVE DumpsAt(_, _, _)
RECURSIVE DumpMembers(_, _, _, _, _)
DumpMembers(isObject, members, i, indent, level) ==
    LET one == (IF isObject THEN "\"" \o members[i].k \o "\": " ELSE "")
                   \o DumpsAt(members[i].v, indent, level)
        sep == IF indent < 0 THEN ", " ELSE ",\n" \o Spaces(indent * level)
    IN  IF i = Len(members) THEN one
        ELSE one \o sep \o DumpMembers(isObject, members, i + 1, indent, level)

DumpsAt(value, indent, level) ==
    IF value.t = "string" THEN "\"" \o value.s \o "\""
    ELSE LET open  == IF value.t = "object" THEN "{" ELSE "["
             close == IF value.t = "object" THEN "}" ELSE "]"
         IN  IF Len(value.m) = 0 THEN open \o close
             ELSE IF indent < 0
             THEN open \o DumpMembers(value.t = "object", value.m, 1, indent, level + 1)
                       \o close
             ELSE open \o "\n" \o Spaces(indent * (level + 1))
                       \o DumpMembers(value.t = "object", value.m, 1, indent, level + 1)
                       \o "\n" \o Spaces(indent * level) \o close

\* json.dumps(result, indent=2)
DumpsIndented(value) == DumpsAt(value, 2, 0)
\* json.dumps({"error": ...})
DumpsCompact(value) == DumpsAt(value, -1, 0)

\* {"error": message}
ErrorObject(message) == JObject(<<Member("error", JString(message))>>)

----------------------------------------------------------------------------
(* CRMConfig and CRMClient *)

\* CRMConfig.base_url
BaseUrl == "http://localhost:8080"

\* CRMClient._url
Url(path) == BaseUrl \o path

\* A backend answer: status 0 stands for a transport failure (no response);
\* parses tells whether the body is JSON; body is the parsed body.
Response(status, parses, body) == [status |-> status, parses |-> parses, body |-> body]

Reason(status) ==
    CASE status = 404 -> "Not Found"
      [] status = 500 -> "Internal Server Error"
      [] OTHER -> ""

\* what a client method hands back: a value, or a raised exception
Succeeded(value) == [ok |-> TRUE, exc |-> "", msg |-> "", value |-> value]
Failed(exc, msg) == [ok |-> FALSE, exc |-> exc, msg |-> msg, value |-> NoValue]

\* resp = self.session.<method>(...); resp.raise_for_status(); return resp.json()
\* raise_for_status raises for 400 <= status < 600 only; the text of the
\* error leaves out the query string of the url.
Request(path, resp) ==
    IF resp.status = 0
    THEN Failed("ConnectionError", "Connection refused for url: " \o Url(path))
    ELSE IF resp.status >= 400 /\ resp.status < 500
    THEN Failed("HTTPError", ToString(resp.status) \o " Client Error: "
                    \o Reason(resp.status) \o " for url: " \o Url(path))
    ELSE IF resp.status >= 500 /\ resp.status < 600
    THEN Failed("HTTPError", ToString(resp.status) \o " Server Error: "
                    \o Reason(resp.status) \o " for url: " \o Url(path))
    ELSE IF ~resp.parses
    THEN Failed("JSONDecodeError", "Expecting value: line 1 column 1 (char 0)")
    ELSE Succeeded(resp.body)

BackendCall(method, path, payload) == [method |-> method, path |-> path, payload |-> payload]

\* CRMClient.get / post / patch: the call issued and what came back
get(path, params, resp) ==
    [call |-> BackendCall("GET", path, params), res |-> Request(path, resp)]
post(path, data, resp) ==
    [call |-> BackendCall("POST", path, data), res |-> Request(path, resp)]
patch(path, data, resp) ==
    [call |-> BackendCall("PATCH", path, data), res |-> Request(path, resp)]
\* CRMClient.delete takes the path alone
delete(path, resp) ==
    [call |-> BackendCall("DELETE", path, EmptyDict), res |-> Request(path, resp)]

----------------------------------------------------------------------------
(* Outcome of running one entry point: how it ended (kind: "returned" or   *)
(* "raised"), the exception that left it (exc, msg), the exception it      *)
(* caught and turned into a result (caught), the object or the string it   *)
(* returned (value, text), the backend calls it issued in order (calls)    *)
(* and whether one of them failed (failed).                                *)

NotRun ==
    [kind |-> "none", exc |-> "", caught |-> "", msg |-> "", value |-> NoValue,
     text |-> "", calls |-> <<>>, failed |-> FALSE]

ReturnValue(value, calls) ==
    [NotRun EXCEPT !.kind = "returned", !.value = value, !.calls = calls]

ReturnText(text, calls) ==
    [NotRun EXCEPT !.kind = "returned", !.text = text, !.calls = calls]

Raise(exc, msg, calls, failed) ==
    [NotRun EXCEPT !.kind = "raised", !.exc = exc, !.msg = msg, !.calls = calls,
                   !.failed = failed]

\* return self.client.<method>(...): one backend call decides the outcome
ReturnCall(c) ==
    IF c.res.ok THEN ReturnValue(c.res.value, <<c.call>>)
    ELSE Raise(c.res.exc, c.res.msg, <<c.call>>, TRUE)

----------------------------------------------------------------------------
(* Binding a keyword-argument mapping to a Python signature, as f(args) with    *)
(* the mapping unpacked.  The inputs of the model omit at most one         *)
(* required argument and add at most one unknown one, so the argument an   *)
(* error names is determined.                                              *)

BindError(fn, params, required, args) ==
    IF \E k \in DOMAIN args : k \notin params
    THEN fn \o "() got an unexpected keyword argument '"
            \o (CHOOSE k \in DOMAIN args : k \notin params) \o "'"
    ELSE IF \E k \in required : k \notin DOMAIN args
    THEN fn \o "() missing 1 required positional argument: '"
            \o (CHOOSE k \in required : k \notin DOMAIN args) \o "'"
    ELSE ""

\* the argument k, or the signature's default for it
Arg(args, defaults, k) == IF k \in DOMAIN args THEN args[k] ELSE defaults[k]

\* the mapping m without key k
Without(m, k) == [x \in DOMAIN m \ {k} |-> m[x]]

----------------------------------------------------------------------------
(* CRMToolkit: direct API methods.  Each takes the keyword arguments and    *)
(* the backend's answers to its first and second call.                     *)

\* limit: int = 20
DefaultLimit == 20

SearchDefaults ==
    [query |-> PyNone, status |-> PyNone, tags |-> PyNone, min_engagement |-> PyNone,
     limit |-> PyInt(DefaultLimit)]

\* search_contacts that hands the tag list to the client as it is
search_contacts_tag_list(args, r1, r2) ==
    LET err == BindError("CRMToolkit.search_contacts",
                         {"query", "status", "tags", "min_engagement", "limit"}, {}, args)
        a(k) == Arg(args, SearchDefaults, k)
        p0 == [limit |-> a("limit")]
        p1 == AddIfTruthy(p0, "query", a("query"))
        p2 == AddIfTruthy(p1, "status", a("status"))
        p3 == AddIfTruthy(p2, "tags", a("tags"))
        p4 == AddIfTruthy(p3, "min_engagement", a("min_engagement"))
    IN  IF err # "" THEN Raise("TypeError", err, <<>>, FALSE)
        ELSE ReturnCall(get("/api/contacts", p4, r1))

search_contacts(args, r1, r2) ==
    LET err == BindError("CRMToolkit.search_contacts",
                         {"query", "status", "tags", "min_engagement", "limit"}, {}, args)
        a(k) == Arg(args, SearchDefaults, k)
        p0 == [limit |-> a("limit")]
        p1 == AddIfTruthy(p0, "query", a("query"))
        p2 == AddIfTruthy(p1, "status", a("status"))
        p3 == IF Truthy(a("tags")) THEN SetItem(p2, "tags", Join(",", a("tags"))) ELSE p2
        p4 == AddIfTruthy(p3, "min_engagement", a("min_engagement"))
    IN  IF err # "" THEN Raise("TypeError", err, <<>>, FALSE)
        ELSE ReturnCall(get("/api/contacts", p4, r1))

GetContactDefaults == [include_timeline |-> PyBool(TRUE)]

\* get_contact that returns the contact alone when the timeline call fails
get_contact_keeps_contact(args, r1, r2) ==
    LET err == BindError("CRMToolkit.get_contact", {"contact_id", "include_timeline"},
                         {"contact_id"}, args)
        path == "/api/contacts/" \o Format(args["contact_id"])
        c1 == get(path, EmptyDict, r1)
        c2 == get(path \o "/timeline", EmptyDict, r2)
    IN  IF err # "" THEN Raise("TypeError", err, <<>>, FALSE)
        ELSE IF ~c1.res.ok THEN Raise(c1.res.exc, c1.res.msg, <<c1.call>>, TRUE)
        ELSE IF ~Truthy(Arg(args, GetContactDefaults, "include_timeline"))
        THEN ReturnValue(c1.res.value, <<c1.call>>)
        ELSE IF ~c2.res.ok THEN ReturnValue(c1.res.value, <<c1.call, c2.call>>)
        ELSE IF c1.res.value.t # "object"
        THEN Raise("TypeError", "list indices must be integers or slices, not str",
                   <<c1.call, c2.call>>, FALSE)
        ELSE ReturnValue(SetKey(c1.res.value, "timeline", c2.res.value),
                         <<c1.call, c2.call>>)

\* get_contact that fetches the timeline whatever include_timeline says
get_contact_always_timeline(args, r1, r2) ==
    LET err == BindError("CRMToolkit.get_contact", {"contact_id", "include_timeline"},
                         {"contact_id"}, args)
        path == "/api/contacts/" \o Format(args["contact_id"])
        c1 == get(path, EmptyDict, r1)
        c2 == get(path \o "/timeline", EmptyDict, r2)
    IN  IF err # "" THEN Raise("TypeError", err, <<>>, FALSE)
        ELSE IF ~c1.res.ok THEN Raise(c1.res.exc, c1.res.msg, <<c1.call>>, TRUE)
        ELSE IF ~c2.res.ok THEN Raise(c2.res.exc, c2.res.msg, <<c1.call, c2.call>>, TRUE)
        ELSE IF c1.res.value.t # "object"
        THEN Raise("TypeError", "list indices must be integers or slices, not str",
                   <<c1.call, c2.call>>, FALSE)
        ELSE ReturnValue(SetKey(c1.res.value, "timeline", c2.res.value),
                         <<c1.call, c2.call>>)

get_contact(args, r1, r2) ==
    LET err == BindError("CRMToolkit.get_contact", {"contact_id", "include_timeline"},
                         {"contact_id"}, args)
        path == "/api/contacts/" \o Format(args["contact_id"])
        c1 == get(path, EmptyDict, r1)
        c2 == get(path \o "/timeline", EmptyDict, r2)
    IN  IF err # "" THEN Raise("TypeError", err, <<>>, FALSE)
        ELSE IF ~c1.res.ok THEN Raise(c1.res.exc, c1.res.msg, <<c1.call>>, TRUE)
        ELSE IF ~Truthy(Arg(args, GetContactDefaults, "include_timeline"))
        THEN ReturnValue(c1.res.value, <<c1.call>>)
        ELSE IF ~c2.res.ok THEN Raise(c2.res.exc, c2.res.msg, <<c1.call, c2.call>>, TRUE)
        ELSE IF c1.res.value.t # "object"
        THEN Raise("TypeError", "list indices must be integers or slices, not str",
                   <<c1.call, c2.call>>, FALSE)
        ELSE ReturnValue(SetKey(c1.res.value, "timeline", c2.res.value),
                         <<c1.call, c2.call>>)

create_contact(args, r1, r2) == ReturnCall(post("/api/contacts", args, r1))

\* update_contact that sends every keyword argument, contact_id included
update_contact_with_id(args, r1, r2) ==
    LET err == BindError("CRMToolkit.update_contact", DOMAIN args \cup {"contact_id"},
                         {"contact_id"}, args)
    IN  IF err # "" THEN Raise("TypeError", err, <<>>, FALSE)
        ELSE ReturnCall(patch("/api/contacts/" \o Format(args["contact_id"]), args, r1))

update_contact(args, r1, r2) ==
    LET err == BindError("CRMToolkit.update_contact", DOMAIN args \cup {"contact_id"},
                         {"contact_id"}, args)
    IN  IF err # "" THEN Raise("TypeError", err, <<>>, FALSE)
        ELSE ReturnCall(patch("/api/contacts/" \o Format(args["contact_id"]),
                              Without(args, "contact_id"), r1))

LogInteractionDefaults == [metadata |-> PyNone]

log_interaction(args, r1, r2) ==
    LET err == BindError("CRMToolkit.log_interaction",
                         {"contact_id", "type", "content", "metadata"},
                         {"contact_id", "type", "content"}, args)
        d0 == [contact |-> args["contact_id"], type |-> args["type"],
               content |-> args["content"]]
        d1 == AddIfTruthy(d0, "metadata", Arg(args, LogInteractionDefaults, "metadata"))
    IN  IF err # "" THEN Raise("TypeError", err, <<>>, FALSE)
        ELSE ReturnCall(post("/api/timeline", d1, r1))

PipelineDefaults == [time_range |-> PyStr("30d")]

get_pipeline_summary(args, r1, r2) ==
    LET err == BindError("CRMToolkit.get_pipeline_summary", {"time_range"}, {}, args)
    IN  IF err # "" THEN Raise("TypeError", err, <<>>, FALSE)
        ELSE ReturnCall(get("/api/analytics/contacts",
                            [time_range |-> Arg(args, PipelineDefaults, "time_range")], r1))

----------------------------------------------------------------------------
(* LangChain tools: the _run method of each tool class *)

\* try: result = <backend calls>; return json.dumps(result, indent=2)
\* except Exception as e: raise ToolException(f"{what}: {e}")
\* ToolResult that answers a failure with an empty result
ToolResult_empty_on_failure(what, o) ==
    IF o.kind = "returned" THEN ReturnText(DumpsIndented(o.value), o.calls)
    ELSE ReturnText("{}", o.calls)

ToolResult(what, o) ==
    IF o.kind = "returned" THEN ReturnText(DumpsIndented(o.value), o.calls)
    ELSE Raise("ToolException", what \o ": " \o o.msg, o.calls, o.failed)

SearchContactsTool_run(args, r1, r2) ==
    LET err == BindError("SearchContactsTool._run",
                         {"query", "status", "tags", "min_engagement", "limit",
                          "run_manager"}, {}, args)
        a(k) == Arg(args, SearchDefaults, k)
        p0 == [limit |-> a("limit")]
        p1 == AddIfTruthy(p0, "query", a("query"))
        p2 == AddIfTruthy(p1, "status", a("status"))
        p3 == IF Truthy(a("tags")) THEN SetItem(p2, "tags", Join(",", a("tags"))) ELSE p2
        p4 == AddIfTruthy(p3, "min_engagement", a("min_engagement"))
    IN  IF err # "" THEN Raise("TypeError", err, <<>>, FALSE)
        ELSE ToolResult("Failed to search contacts",
                        ReturnCall(get("/api/contacts", p4, r1)))

GetContactTool_run(args, r1, r2) ==
    LET err == BindError("GetContactTool._run",
                         {"contact_id", "include_timeline", "run_manager"},
                         {"contact_id"}, args)
        path == "/api/contacts/" \o Format(args["contact_id"])
        c1 == get(path, EmptyDict, r1)
        c2 == get(path \o "/timeline", EmptyDict, r2)
        body ==
            IF ~c1.res.ok THEN Raise(c1.res.exc, c1.res.msg, <<c1.call>>, TRUE)
            ELSE IF ~Truthy(Arg(args, GetContactDefaults, "include_timeline"))
            THEN ReturnValue(c1.res.value, <<c1.call>>)
            ELSE IF ~c2.res.ok
            THEN Raise(c2.res.exc, c2.res.msg, <<c1.call, c2.call>>, TRUE)
            ELSE IF c1.res.value.t # "object"
            THEN Raise("TypeError", "list indices must be integers or slices, not str",
                       <<c1.call, c2.call>>, FALSE)
            ELSE ReturnValue(SetKey(c1.res.value, "timeline", c2.res.value),
                             <<c1.call, c2.call>>)
    IN  IF err # "" THEN Raise("TypeError", err, <<>>, FALSE)
        ELSE ToolResult("Failed to get contact", body)

CreateContactDefaults ==
    [email |-> PyNone, phone |-> PyNone, company |-> PyNone, status |-> PyStr("lead"),
     tags |-> PyNone, notes |-> PyNone]

CreateContactTool_run(args, r1, r2) ==
    LET err == BindError("CreateContactTool._run",
                         {"first_name", "last_name", "email", "phone", "company",
                          "status", "tags", "notes", "run_manager"},
                         {"first_name", "last_name"}, args)
        a(k) == Arg(args, CreateContactDefaults, k)
        d0 == [first_name |-> args["first_name"], last_name |-> args["last_name"],
               status |-> a("status")]
        d1 == AddIfTruthy(d0, "email", a("email"))
        d2 == AddIfTruthy(d1, "phone", a("phone"))
        d3 == AddIfTruthy(d2, "company", a("company"))
        d4 == AddIfTruthy(d3, "tags", a("tags"))
        d5 == AddIfTruthy(d4, "notes", a("notes"))
    IN  IF err # "" THEN Raise("TypeError", err, <<>>, FALSE)
        ELSE ToolResult("Failed to create contact",
                        ReturnCall(post("/api/contacts", d5, r1)))

UpdateContactDefaults == [status |-> PyNone, tags |-> PyNone, add_tags |-> PyNone]

UpdateContactTool_run(args, r1, r2) ==
    LET err == BindError("UpdateContactTool._run",
                         {"contact_id", "status", "tags", "add_tags", "run_manager"},
                         {"contact_id"}, args)
        a(k) == Arg(args, UpdateContactDefaults, k)
        d1 == AddIfTruthy(EmptyDict, "status", a("status"))
        d2 == AddIfTruthy(d1, "tags", a("tags"))
    IN  IF err # "" THEN Raise("TypeError", err, <<>>, FALSE)
        ELSE ToolResult("Failed to update contact",
                        ReturnCall(patch("/api/contacts/" \o Format(args["contact_id"]),
                                         d2, r1)))

LogInteractionTool_run(args, r1, r2) ==
    LET err == BindError("LogInteractionTool._run",
                         {"contact_id", "type", "content", "metadata", "run_manager"},
                         {"contact_id", "type", "content"}, args)
        d0 == [contact |-> args["contact_id"], type |-> args["type"],
               content |-> args["content"]]
        d1 == AddIfTruthy(d0, "metadata", Arg(args, LogInteractionDefaults, "metadata"))
    IN  IF err # "" THEN Raise("TypeError", err, <<>>, FALSE)
        ELSE ToolResult("Failed to log interaction",
                        ReturnCall(post("/api/timeline", d1, r1)))

GetPipelineSummaryTool_run(args, r1, r2) ==
    LET err == BindError("GetPipelineSummaryTool._run", {"time_range", "run_manager"},
                         {}, args)
    IN  IF err # "" THEN Raise("TypeError", err, <<>>, FALSE)
        ELSE ToolResult("Failed to get pipeline summary",
                        ReturnCall(get("/api/analytics/contacts",
                                       [time_range |-> Arg(args, PipelineDefaults,
                                                           "time_range")], r1)))

----------------------------------------------------------------------------
(* CRMToolkit: dispatch by name *)

\* the six operations, in the order get_langchain_tools lists their tools
Operations ==
    <<"search_contacts", "get_contact", "create_contact", "update_contact",
      "log_interaction", "get_pipeline_summary">>

\* the keys of the handlers dict of handle_openai_function_call
Handlers ==
    {"search_contacts", "get_contact", "create_contact", "log_interaction",
     "get_pipeline_summary"}

\* handlers[function_name](arguments)
CallHandler(function_name, arguments, r1, r2) ==
    CASE function_name = "search_contacts" -> search_contacts(arguments, r1, r2)
      [] function_name = "get_contact" -> get_contact(arguments, r1, r2)
      [] function_name = "create_contact" -> create_contact(arguments, r1, r2)
      [] function_name = "log_interaction" -> log_interaction(arguments, r1, r2)
      [] function_name = "get_pipeline_summary" ->
             get_pipeline_summary(arguments, r1, r2)

\* handle_openai_function_call without the lookup guard: the KeyError of
\* handlers[function_name] is caught like any other failure
handle_openai_function_call_unguarded(function_name, arguments, r1, r2) ==
    IF function_name \notin Handlers
    THEN [ReturnText(DumpsCompact(ErrorObject("'" \o function_name \o "'")), <<>>)
             EXCEPT !.caught = "KeyError"]
    ELSE LET o == CallHandler(function_name, arguments, r1, r2)
         IN  IF o.kind = "returned" THEN ReturnText(DumpsIndented(o.value), o.calls)
             ELSE [ReturnText(DumpsCompact(ErrorObject(o.msg)), o.calls)
                      EXCEPT !.caught = o.exc, !.failed = o.failed]

\* handle_openai_function_call without its try/except
handle_openai_function_call_uncaught(function_name, arguments, r1, r2) ==
    IF function_name \notin Handlers
    THEN ReturnText(DumpsCompact(ErrorObject("Unknown function: " \o function_name)),
                    <<>>)
    ELSE LET o == CallHandler(function_name, arguments, r1, r2)
         IN  IF o.kind = "returned" THEN ReturnText(DumpsIndented(o.value), o.calls)
             ELSE o

\* handle_openai_function_call that serialises a success without indent=2
handle_openai_function_call_compact(function_name, arguments, r1, r2) ==
    IF function_name \notin Handlers
    THEN ReturnText(DumpsCompact(ErrorObject("Unknown function: " \o function_name)),
                    <<>>)
    ELSE LET o == CallHandler(function_name, arguments, r1, r2)
         IN  IF o.kind = "returned" THEN ReturnText(DumpsCompact(o.value), o.calls)
             ELSE [ReturnText(DumpsCompact(ErrorObject(o.msg)), o.calls)
                      EXCEPT !.caught = o.exc, !.failed = o.failed]

handle_openai_function_call(function_name, arguments, r1, r2) ==
    IF function_name \notin Handlers
    THEN ReturnText(DumpsCompact(ErrorObject("Unknown function: " \o function_name)),
                    <<>>)
    ELSE LET o == CallHandler(function_name, arguments, r1, r2)
         IN  IF o.kind = "returned" THEN ReturnText(DumpsIndented(o.value), o.calls)
             ELSE [ReturnText(DumpsCompact(ErrorObject(o.msg)), o.calls)
                      EXCEPT !.caught = o.exc, !.failed = o.failed]

handle_claude_tool_use(tool_name, tool_input, r1, r2) ==
    handle_openai_function_call(tool_name, tool_input, r1, r2)

\* toolkit.<name>(**args), for the six methods the toolkit has
CallMethod(name, args, r1, r2) ==
    CASE name = "search_contacts" -> search_contacts(args, r1, r2)
      [] name = "get_contact" -> get_contact(args, r1, r2)
      [] name = "create_contact" -> create_contact(args, r1, r2)
      [] name = "update_contact" -> update_contact(args, r1, r2)
      [] name = "log_interaction" -> log_interaction(args, r1, r2)
      [] name = "get_pipeline_summary" -> get_pipeline_summary(args, r1, r2)

\* tool._run(**args), for the tool named name of get_langchain_tools
RunTool(name, args, r1, r2) ==
    CASE name = "search_contacts" -> SearchContactsTool_run(args, r1, r2)
      [] name = "get_contact" -> GetContactTool_run(args, r1, r2)
      [] name = "create_contact" -> CreateContactTool_run(args, r1, r2)
      [] name = "update_contact" -> UpdateContactTool_run(args, r1, r2)
      [] name = "log_interaction" -> LogInteractionTool_run(args, r1, r2)
      [] name = "get_pipeline_summary" -> GetPipelineSummaryTool_run(args, r1, r2)

----------------------------------------------------------------------------
(* Schema adapters.  A schema is [name, properties, required]; a property  *)
(* is [name, type, enum, described, default] (enum <<>>: no enum; default  *)
(* "": none).  A schema without a "required" key has required = <<>>.      *)

Property(name, type, enum, described, default) ==
    [name |-> name, type |-> type, enum |-> enum, described |-> described,
     default |-> default]

Schema(name, properties, required) ==
    [name |-> name, properties |-> properties, required |-> required]

get_openai_functions ==
    << Schema("search_contacts",
              << Property("query", "string", <<>>, TRUE, ""),
                 Property("status", "string",
                          <<"lead", "customer", "partner", "investor">>, FALSE, ""),
                 Property("tags", "array", <<>>, FALSE, ""),
                 Property("min_engagement", "number", <<>>, FALSE, ""),
                 Property("limit", "integer", <<>>, FALSE, "20") >>,
              <<>>),
       Schema("get_contact",
              << Property("contact_id", "string", <<>>, TRUE, ""),
                 Property("include_timeline", "boolean", <<>>, FALSE, "True") >>,
              <<"contact_id">>),
       Schema("create_contact",
              << Property("first_name", "string", <<>>, FALSE, ""),
                 Property("last_name", "string", <<>>, FALSE, ""),
                 Property("email", "string", <<>>, FALSE, ""),
                 Property("phone", "string", <<>>, FALSE, ""),
                 Property("company", "string", <<>>, FALSE, ""),
                 Property("status", "string",
                          <<"lead", "customer", "partner", "investor">>, FALSE, ""),
                 Property("tags", "array", <<>>, FALSE, ""),
                 Property("notes", "string", <<>>, FALSE, "") >>,
              <<"first_name", "last_name">>),
       Schema("log_interaction",
              << Property("contact_id", "string", <<>>, FALSE, ""),
                 Property("type", "string",
                          <<"email_sent", "call", "meeting", "note", "social_touch">>,
                          FALSE, ""),
                 Property("content", "string", <<>>, FALSE, ""),
                 Property("metadata", "object", <<>>, FALSE, "") >>,
              <<"contact_id", "type", "content">>),
       Schema("get_pipeline_summary",
              << Property("time_range", "string", <<"7d", "30d", "90d", "all">>,
                          FALSE, "") >>,
              <<>>) >>

get_claude_tools ==
    << Schema("search_contacts",
              << Property("query", "string", <<>>, TRUE, ""),
                 Property("status", "string",
                          <<"lead", "customer", "partner", "investor">>, TRUE, ""),
                 Property("tags", "array", <<>>, TRUE, ""),
                 Property("min_engagement", "number", <<>>, TRUE, ""),
                 Property("limit", "integer", <<>>, TRUE, "") >>,
              <<>>),
       Schema("get_contact",
              << Property("contact_id", "string", <<>>, TRUE, ""),
                 Property("include_timeline", "boolean", <<>>, TRUE, "") >>,
              <<"contact_id">>),
       Schema("create_contact",
              << Property("first_name", "string", <<>>, FALSE, ""),
                 Property("last_name", "string", <<>>, FALSE, ""),
                 Property("email", "string", <<>>, FALSE, ""),
                 Property("phone", "string", <<>>, FALSE, ""),
                 Property("company", "string", <<>>, FALSE, ""),
                 Property("status", "string",
                          <<"lead", "customer", "partner", "investor">>, FALSE, ""),
                 Property("tags", "array", <<>>, FALSE, ""),
                 Property("notes", "string", <<>>, FALSE, "") >>,
              <<"first_name", "last_name">>),
       Schema("log_interaction",
              << Property("contact_id", "string", <<>>, FALSE, ""),
                 Property("type", "string",
                          <<"email_sent", "call", "meeting", "note", "social_touch">>,
                          FALSE, ""),
                 Property("content", "string", <<>>, TRUE, ""),
                 Property("metadata", "object", <<>>, TRUE, "") >>,
              <<"contact_id", "type", "content">>),
       Schema("get_pipeline_summary",
              << Property("time_range", "string", <<"7d", "30d", "90d", "all">>,
                          FALSE, "") >>,
              <<>>) >>

\* A field of a pydantic input model: Field(...) declares no default
\* (required), Field(None, ..) / Field(x, ..) declare one.
Field(name, type, required, default) ==
    [name |-> name, type |-> type, required |-> required, default |-> default]

SearchContactsInput ==
    << Field("query", "string", FALSE, "None"), Field("status", "string", FALSE, "None"),
       Field("tags", "array", FALSE, "None"),
       Field("min_engagement", "number", FALSE, "None"),
       Field("limit", "integer", FALSE, "20") >>

GetContactInput ==
    << Field("contact_id", "string", TRUE, ""),
       Field("include_timeline", "boolean", FALSE, "True") >>

CreateContactInput ==
    << Field("first_name", "string", TRUE, ""), Field("last_name", "string", TRUE, ""),
       Field("email", "string", FALSE, "None"), Field("phone", "string", FALSE, "None"),
       Field("company", "string", FALSE, "None"), Field("status", "string", FALSE, "lead"),
       Field("tags", "array", FALSE, "None"), Field("notes", "string", FALSE, "None") >>

UpdateContactInput ==
    << Field("contact_id", "string", TRUE, ""), Field("status", "string", FALSE, "None"),
       Field("tags", "array", FALSE, "None"), Field("add_tags", "array", FALSE, "None") >>

LogInteractionInput ==
    << Field("contact_id", "string", TRUE, ""), Field("type", "string", TRUE, ""),
       Field("content", "string", TRUE, ""), Field("metadata", "object", FALSE, "None") >>

GetPipelineSummaryInput == << Field("time_range", "string", FALSE, "30d") >>

\* the args_schema of the tool class named name
ArgsSchema(name) ==
    CASE name = "search_contacts" -> SearchContactsInput
      [] name = "get_contact" -> GetContactInput
      [] name = "create_contact" -> CreateContactInput
      [] name = "update_contact" -> UpdateContactInput
      [] name = "log_interaction" -> LogInteractionInput
      [] name = "get_pipeline_summary" -> GetPipelineSummaryInput

\* the schema a tool object carries: its name and its input model, every
\* field described and none with an enum (the models declare status, type
\* and time_range as plain str)
ToolSchema(name) ==
    LET fields == ArgsSchema(name)
        req == SelectSeq(fields, LAMBDA f : f.required)
    IN  Schema(name,
               [i \in 1..Len(fields) |->
                   Property(fields[i].name, fields[i].type, <<>>, TRUE, fields[i].default)],
               [i \in 1..Len(req) |-> req[i].name])

get_langchain_tools ==
    << ToolSchema("search_contacts"), ToolSchema("get_contact"),
       ToolSchema("create_contact"), ToolSchema("update_contact"),
       ToolSchema("log_interaction"), ToolSchema("get_pipeline_summary") >>

----------------------------------------------------------------------------
(* The inputs: operation names, argument mappings, backend answers *)

OperationNames == {Operations[i] : i \in 1..Len(Operations)}

\* a name no part of the toolkit knows
UnknownNames == {"delete_contact"}

Names == OperationNames \cup UnknownNames

\* the tags a caller may list, in the order it lists them
TagPool == <<"founder", "vc", "angel", "press">>

TagLists == {PyList(SubSeq(TagPool, 1, n)) : n \in 0..MaxTags}

\* the values a caller may supply for an argument: each set holds a falsy
\* value or one outside the advertised enum or kind where one exists
Options(k) ==
    CASE k = "query" -> {PyStr(""), PyStr("ada")}
      [] k = "status" -> {PyStr("customer"), PyStr("archived")}
      [] k = "tags" -> TagLists
      [] k = "add_tags" -> {PyList(<<"vc">>)}
      [] k = "min_engagement" -> {PyInt(0), PyInt(50)}
      [] k = "limit" -> {PyInt(5), PyStr("ten")}
      [] k = "contact_id" -> {PyStr("c1")}
      [] k = "include_timeline" -> {PyBool(TRUE), PyBool(FALSE)}
      [] k = "first_name" -> {PyStr("Ada")}
      [] k = "last_name" -> {PyStr("Lovelace")}
      [] k = "email" -> {PyStr(""), PyStr("ada@example.com")}
      [] k = "phone" -> {PyStr("555")}
      [] k = "company" -> {PyStr("Acme")}
      [] k = "notes" -> {PyStr("met at demo day")}
      [] k = "type" -> {PyStr("call"), PyStr("fax")}
      [] k = "content" -> {PyStr("intro call")}
      [] k = "metadata" -> {PyDict(<<>>), PyDict(<<"duration", "30">>)}
      [] k = "time_range" -> {PyStr("7d"), PyStr("1y")}
      [] k = "bogus" -> {PyStr("x")}

FieldNames(fields) == {fields[i].name : i \in 1..Len(fields)}

RequiredFields(fields) == {fields[i].name : i \in {j \in 1..Len(fields) : fields[j].required}}

\* the argument names a caller may use with a name: those of the
\* operation's input model, and one that no operation declares
Keys(name) ==
    IF name \in OperationNames THEN FieldNames(ArgsSchema(name)) \cup {"bogus"}
    ELSE {"contact_id", "bogus"}

RequiredKeys(name) ==
    IF name \in OperationNames THEN RequiredFields(ArgsSchema(name)) ELSE {}

RECURSIVE Mappings(_)
Mappings(D) ==
    IF D = {} THEN {EmptyDict}
    ELSE LET k == CHOOSE x \in D : TRUE
         IN  {SetItem(m, k, v) : m \in Mappings(D \ {k}), v \in Options(k)}

ArgsOf(name) ==
    UNION {Mappings(D) : D \in {E \in SUBSET Keys(name) :
                                   /\ Cardinality(E \ RequiredKeys(name)) =< MaxOptional
                                   /\ Cardinality(RequiredKeys(name) \ E) =< 1}}

\* the 500 text of a call to /api/contacts, sent back as a 200 body
ErrorLikeBody == ErrorObject("500 Server Error: Internal Server Error for url: "
                                \o Url("/api/contacts"))

Responses ==
    { Response(200, TRUE, JObject(<<>>)),
      Response(200, TRUE, JObject(<<Member("id", JString("c1"))>>)),
      Response(200, TRUE, ErrorLikeBody),
      Response(200, TRUE, JArray(<<>>)),
      Response(204, FALSE, NoValue),
      Response(300, TRUE, JObject(<<>>)),
      Response(404, TRUE, JObject(<<>>)),
      Response(500, FALSE, NoValue),
      Response(0, FALSE, NoValue) }

\* only get_contact issues a second call
SecondResponses(name) ==
    IF name = "get_contact" THEN Responses ELSE {Response(200, TRUE, JObject(<<>>))}

Inputs ==
    UNION {{[name |-> n, args |-> a, r1 |-> x, r2 |-> y] :
               a \in ArgsOf(n), x \in Responses, y \in SecondResponses(n)} : n \in Names}

----------------------------------------------------------------------------
(* The state machine *)

Paths == {"direct", "openai", "claude", "tool"}
Adapters == {"openai", "claude", "langchain"}

\* What a caller holds of an adapter: returned is the list its first call
\* returned, schemas that same list object as it is now (the caller may
\* have changed it), again the list a later call returned.
NotCalled == [called |-> FALSE, schemas |-> <<>>, returned |-> <<>>,
              twice |-> FALSE, again |-> <<>>]

\* an adapter that hands out one list object on every call
Emit_shared(e, list) ==
    IF ~e.called
    THEN [called |-> TRUE, schemas |-> list, returned |-> list, twice |-> FALSE, again |-> <<>>]
    ELSE [e EXCEPT !.twice = TRUE, !.again = e.schemas]

\* "return [ ... ]": every call of an adapter builds a new list
Emit(e, list) ==
    IF ~e.called
    THEN [called |-> TRUE, schemas |-> list, returned |-> list, twice |-> FALSE, again |-> <<>>]
    ELSE [e EXCEPT !.twice = TRUE, !.again = list]

ClientMethods == {"get", "post", "patch", "delete"}
NoReply == [called |-> FALSE, call |-> BackendCall("", "", EmptyDict), res |-> Failed("", "")]
Replied(r) == [called |-> TRUE, call |-> r.call, res |-> r.res]
\* the paths a bare client call is made on
ClientPaths == {"/api/contacts", "/api/contacts/c1"}

\* who holds a CRMToolkit: the caller's own toolkit, and the temporary one
\* each of the two module-level convenience functions constructs
Owners == {"toolkit", "get_openai_functions", "get_claude_tools"}
NoToolkit == [lifetime |-> "none", session |-> "none", returned |-> <<>>]
\* CRMToolkit.__init__ -> CRMClient.__init__: self.session = requests.Session()
Constructed == [lifetime |-> "live", session |-> "open", returned |-> <<>>]
\* A toolkit whose last reference is gone.  No statement of the module
\* closes a session (there is no close(), no context manager and no
\* finaliser in it), so the session is left as it is unless the runtime's
\* collector happens to release its sockets.
Dropped(t) ==
    {[t EXCEPT !.lifetime = "ended", !.session = c] : c \in {t.session, "closed"}}
\* the caller's toolkit exists and can be called
Live == toolkits["toolkit"].lifetime = "live"

\* the inputs of the specifications about the schema adapters, where a
\* dispatch matters only for having happened: the backend answers 200 {}
\* or 500
SchemaResponses == {Response(200, TRUE, JObject(<<>>)), Response(500, FALSE, NoValue)}
SchemaInputs == {i \in Inputs : i.r1 \in SchemaResponses /\ i.r2 \in SchemaResponses}

Start(inputs) ==
    /\ input \in inputs
    /\ out = [p \in Paths |-> NotRun]
    /\ emitted = [a \in Adapters |-> NotCalled]
    /\ reply = [m \in ClientMethods |-> NoReply]
    /\ toolkits = [o \in Owners |-> IF o = "toolkit" THEN Constructed ELSE NoToolkit]

Init == Start(Inputs)
SchemaInit == Start(SchemaInputs)

\* toolkit.<name>(**args)
CallDirect ==
    /\ Live
    /\ input.name \in OperationNames
    /\ out' = [out EXCEPT !["direct"] = CallMethod(input.name, input.args, input.r1, input.r2)]
    /\ UNCHANGED <<input, emitted, reply, toolkits>>

\* toolkit.handle_openai_function_call(name, args)
HandleOpenAIFunctionCall ==
    /\ Live
    /\ out' = [out EXCEPT !["openai"] =
                  handle_openai_function_call(input.name, input.args, input.r1, input.r2)]
    /\ UNCHANGED <<input, emitted, reply, toolkits>>

\* toolkit.handle_claude_tool_use(name, args)
HandleClaudeToolUse ==
    /\ Live
    /\ out' = [out EXCEPT !["claude"] =
                  handle_claude_tool_use(input.name, input.args, input.r1, input.r2)]
    /\ UNCHANGED <<input, emitted, reply, toolkits>>

\* the tool named name of toolkit.get_langchain_tools(), run with args
RunLangchainTool ==
    /\ Live
    /\ input.name \in OperationNames
    /\ out' = [out EXCEPT !["tool"] = RunTool(input.name, input.args, input.r1, input.r2)]
    /\ UNCHANGED <<input, emitted, reply, toolkits>>

GetOpenAIFunctions ==
    /\ Live
    /\ emitted' = [emitted EXCEPT !["openai"] = Emit(@, get_openai_functions)]
    /\ UNCHANGED <<input, out, reply, toolkits>>

GetClaudeTools ==
    /\ Live
    /\ emitted' = [emitted EXCEPT !["claude"] = Emit(@, get_claude_tools)]
    /\ UNCHANGED <<input, out, reply, toolkits>>

GetLangchainTools ==
    /\ Live
    /\ emitted' = [emitted EXCEPT !["langchain"] = Emit(@, get_langchain_tools)]
    /\ UNCHANGED <<input, out, reply, toolkits>>

\* the caller changes the list a first call returned: functions.pop()
MutateSchemas ==
    /\ \E a \in {"openai", "claude"} :
           /\ emitted[a].called
           /\ emitted[a].schemas = emitted[a].returned
           /\ Len(emitted[a].schemas) > 0
           /\ emitted' = [emitted EXCEPT ![a].schemas = SubSeq(@, 1, Len(@) - 1)]
    /\ UNCHANGED <<input, out, reply, toolkits>>

\* the caller lets go of its toolkit: the end of the toolkit's lifetime
EndLifetime ==
    /\ Live
    /\ toolkits' \in {[toolkits EXCEPT !["toolkit"] = t] : t \in Dropped(toolkits["toolkit"])}
    /\ UNCHANGED <<input, out, emitted, reply>>

\* module-level get_openai_functions(base_url):
\* return CRMToolkit(base_url).get_openai_functions()
ModuleGetOpenAIFunctions ==
    /\ toolkits["get_openai_functions"].lifetime = "none"
    /\ toolkits' \in {[toolkits EXCEPT !["get_openai_functions"] = t] :
                         t \in Dropped([Constructed EXCEPT !.returned = get_openai_functions])}
    /\ UNCHANGED <<input, out, emitted, reply>>

\* module-level get_claude_tools(base_url):
\* return CRMToolkit(base_url).get_claude_tools()
ModuleGetClaudeTools ==
    /\ toolkits["get_claude_tools"].lifetime = "none"
    /\ toolkits' \in {[toolkits EXCEPT !["get_claude_tools"] = t] :
                         t \in Dropped([Constructed EXCEPT !.returned = get_claude_tools])}
    /\ UNCHANGED <<input, out, emitted, reply>>

\* toolkit.client.get(path, params=args)
ClientGet ==
    /\ Live
    /\ \E path \in ClientPaths :
           reply' = [reply EXCEPT !["get"] = Replied(get(path, input.args, input.r1))]
    /\ UNCHANGED <<input, out, emitted, toolkits>>

\* toolkit.client.post(path, data=args)
ClientPost ==
    /\ Live
    /\ \E path \in ClientPaths :
           reply' = [reply EXCEPT !["post"] = Replied(post(path, input.args, input.r1))]
    /\ UNCHANGED <<input, out, emitted, toolkits>>

\* toolkit.client.patch(path, data=args)
ClientPatch ==
    /\ Live
    /\ \E path \in ClientPaths :
           reply' = [reply EXCEPT !["patch"] = Replied(patch(path, input.args, input.r1))]
    /\ UNCHANGED <<input, out, emitted, toolkits>>

\* toolkit.client.delete(path)
ClientDelete ==
    /\ Live
    /\ \E path \in ClientPaths :
           reply' = [reply EXCEPT !["delete"] = Replied(delete(path, input.r1))]
    /\ UNCHANGED <<input, out, emitted, toolkits>>

\* the four ways of executing an operation
Next ==
    \/ CallDirect
    \/ HandleOpenAIFunctionCall
    \/ HandleClaudeToolUse
    \/ RunLangchainTool

Spec == Init /\ [][Next]_vars

\* an agent loop: fetch the schemas of an adapter, dispatch the model's calls
SchemaNext ==
    \/ GetOpenAIFunctions
    \/ GetClaudeTools
    \/ GetLangchainTools
    \/ HandleOpenAIFunctionCall
    \/ HandleClaudeToolUse

SchemaSpec == SchemaInit /\ [][SchemaNext]_vars

\* a caller that fetches schemas repeatedly, changes what it got and
\* dispatches in between
AdapterNext ==
    \/ GetOpenAIFunctions
    \/ GetClaudeTools
    \/ MutateSchemas
    \/ HandleOpenAIFunctionCall

AdapterSpec == SchemaInit /\ [][AdapterNext]_vars

\* A program that uses a toolkit and the convenience functions and then
\* lets the toolkit go.  Every call that is made returns or raises, so a
\* step that can be taken is taken.
LifecycleNext ==
    \/ HandleOpenAIFunctionCall
    \/ ModuleGetOpenAIFunctions
    \/ ModuleGetClaudeTools
    \/ EndLifetime

LifecycleSpec == SchemaInit /\ [][LifecycleNext]_vars /\ WF_vars(LifecycleNext)

\* bare calls of the four client methods
ClientNext ==
    \/ ClientGet
    \/ ClientPost
    \/ ClientPatch
    \/ ClientDelete

ClientSpec == Init /\ [][ClientNext]_vars

----------------------------------------------------------------------------
(* Vocabulary of the properties *)

DispatchPaths == {"openai", "claude"}

Ran(p) == out[p].kind # "none"

\* the backend's answer to the i-th call of an execution
Answer(i) == IF i = 1 THEN input.r1 ELSE input.r2

\* the i-th backend call of outcome o failed in the client
CallFailed(o, i) == ~Request(o.calls[i].path, Answer(i)).ok

SomeCallFailed(o) == \E i \in 1..Len(o.calls) : CallFailed(o, i)

\* the dispatcher reported an error: it returned {"error": ...}
ErrorResult(p) ==
    Ran(p) /\ (input.name \notin Handlers \/ out[p].caught # "")

----------------------------------------------------------------------------
(* Properties *)

\* C1: dispatching a name that has no handler returns the error object
\* {"error": "Unknown function: <name>"}, never raises and issues no
\* backend call, whatever the arguments; dispatching a name that has a
\* handler never returns that object.
UnknownOperationText(name) == "{\"error\": \"Unknown function: " \o name \o "\"}"

C1_UnknownOperation ==
    \A p \in DispatchPaths :
        Ran(p) =>
            IF input.name \notin Handlers
            THEN /\ out[p].kind = "returned"
                 /\ out[p].calls = <<>>
                 /\ out[p].text = UnknownOperationText(input.name)
            ELSE \A n \in Names : out[p].text # UnknownOperationText(n)

C1_Witness ==
    /\ Ran("openai") /\ Ran("claude")
    /\ input.name \in UnknownNames
    /\ DOMAIN input.args = {"contact_id", "bogus"}

\* C2: whatever the name, the arguments and the backend's answer, dispatch
\* returns a result and lets no exception out.
C2_DispatchNeverRaises ==
    \A p \in DispatchPaths : out[p].kind # "raised"

C2_Witness ==
    /\ Ran("openai")
    /\ out["openai"].caught = "HTTPError"
    /\ Ran("direct") /\ out["direct"].kind = "raised"

\* The parameter specification an operation advertises: its entry in the
\* function-calling schema, or its input model where that schema has none.
ParameterSpec(name) ==
    IF \E i \in 1..Len(get_openai_functions) : get_openai_functions[i].name = name
    THEN get_openai_functions[CHOOSE i \in 1..Len(get_openai_functions) :
                                 get_openai_functions[i].name = name]
    ELSE ToolSchema(name)

Elements(seq) == {seq[i] : i \in 1..Len(seq)}

\* the JSON Schema types a Python value satisfies
JsonTypes(v) ==
    CASE v[1] = "str" -> {"string"}
      [] v[1] = "int" -> {"integer", "number"}
      [] v[1] = "bool" -> {"boolean"}
      [] v[1] = "list" -> {"array"}
      [] v[1] = "dict" -> {"object"}
      [] OTHER -> {}

ViolatesParameterSpec(name, args) ==
    LET ps == ParameterSpec(name)
    IN  \/ \E k \in Elements(ps.required) : k \notin DOMAIN args
        \/ \E i \in 1..Len(ps.properties) :
              LET q == ps.properties[i]
              IN  /\ q.name \in DOMAIN args
                  /\ \/ q.type \notin JsonTypes(args[q.name])
                     \/ /\ q.enum # <<>>
                        /\ args[q.name][1] = "str"
                        /\ args[q.name][2] \notin Elements(q.enum)

\* C3: arguments that violate the operation's parameter specification
\* (required field missing, wrong kind, value outside the enum) make the
\* dispatch report an error without any backend call.
C3_InvalidArgumentsStayLocal ==
    \A p \in DispatchPaths :
        (Ran(p) /\ input.name \in OperationNames
                /\ ViolatesParameterSpec(input.name, input.args)) =>
            (ErrorResult(p) /\ out[p].calls = <<>>)

\* a backend answer the client turns into a value: 2xx with a JSON body
Healthy(r) == r.status >= 200 /\ r.status < 300 /\ r.parses

\* the outcome of path p is the success value v
Returns(p, v) ==
    /\ out[p].kind = "returned"
    /\ out[p].caught = ""
    /\ IF p = "direct" THEN out[p].value = v ELSE out[p].text = DumpsIndented(v)

WellFormedGetContact ==
    /\ input.name = "get_contact"
    /\ "contact_id" \in DOMAIN input.args
    /\ DOMAIN input.args \subseteq {"contact_id", "include_timeline"}

WantsTimeline ==
    \/ "include_timeline" \notin DOMAIN input.args
    \/ input.args["include_timeline"] = PyBool(TRUE)

ContactGet ==
    BackendCall("GET", "/api/contacts/" \o input.args["contact_id"][2], EmptyDict)

TimelineGet ==
    BackendCall("GET", "/api/contacts/" \o input.args["contact_id"][2] \o "/timeline",
                EmptyDict)

\* C4: get_contact with include_timeline true or omitted issues the
\* contact GET and then, once that succeeded, the timeline GET, never
\* anything else; when both are answered with JSON it returns the contact
\* with the timeline answer under "timeline".  With include_timeline false
\* it issues the contact GET alone and returns the contact unchanged.
C4_GetContactTimeline ==
    \A p \in Paths :
        (Ran(p) /\ WellFormedGetContact) =>
            LET o == out[p]
                merged == JObject(Append(input.r1.body.m,
                                         Member("timeline", input.r2.body)))
            IN  /\ WantsTimeline =>
                      /\ o.calls \in {<<ContactGet>>, <<ContactGet, TimelineGet>>}
                      /\ Healthy(input.r1) => o.calls = <<ContactGet, TimelineGet>>
                      /\ (Healthy(input.r1) /\ Healthy(input.r2)
                             /\ input.r1.body.t = "object") => Returns(p, merged)
                /\ ~WantsTimeline =>
                      /\ o.calls = <<ContactGet>>
                      /\ Healthy(input.r1) => Returns(p, input.r1.body)

C4_Witness ==
    /\ WellFormedGetContact
    /\ "include_timeline" \notin DOMAIN input.args
    /\ Healthy(input.r1) /\ Healthy(input.r2)
    /\ input.r1.body = JObject(<<Member("id", JString("c1"))>>)
    /\ \A p \in Paths : Ran(p) /\ Len(out[p].calls) = 2
    /\ HasKey(out["direct"].value, "timeline")
    /\ ValueAt(out["direct"].value, "timeline") = input.r2.body

C4_WitnessWithoutTimeline ==
    /\ WellFormedGetContact
    /\ ~WantsTimeline
    /\ Healthy(input.r1)
    /\ \A p \in Paths : Ran(p) /\ Len(out[p].calls) = 1

\* C5: create_contact with only first_name and last_name sends, on every
\* path, one POST /api/contacts whose body is exactly first_name,
\* last_name and status = "lead".
C5_MinimalCreateBody ==
    \A p \in Paths :
        (Ran(p) /\ input.name = "create_contact"
                /\ DOMAIN input.args = {"first_name", "last_name"}) =>
            out[p].calls =
                << BackendCall("POST", "/api/contacts",
                               [first_name |-> input.args["first_name"],
                                last_name |-> input.args["last_name"],
                                status |-> PyStr("lead")]) >>

\* every result the dispatcher can give over the inputs, by kind
DispatchOutcomes ==
    {handle_openai_function_call(i.name, i.args, i.r1, i.r2) : i \in Inputs}

ErrorTexts ==
    {o.text : o \in {x \in DispatchOutcomes : x.caught # "" \/ x.calls = <<>>}}

SuccessTexts ==
    {o.text : o \in {x \in DispatchOutcomes : x.caught = "" /\ x.calls # <<>>}}

\* C6: a dispatched operation whose backend call is answered 500 returns
\* the error object carrying "500 Server Error"; one answered 200 with {}
\* returns "{}"; and no string returned for an error is a string returned
\* for some success, nor the other way round.
C6_FailureAndSuccessDistinct ==
    \A p \in DispatchPaths :
        (Ran(p) /\ out[p].calls # <<>>) =>
            LET o == out[p]
                last == Len(o.calls)
            IN  /\ Answer(last).status = 500 =>
                      o.text = "{\"error\": \"500 Server Error: Internal Server Error "
                                  \o "for url: " \o Url(o.calls[last].path) \o "\"}"
                /\ (last = 1 /\ input.r1 = Response(200, TRUE, JObject(<<>>))) =>
                      o.text = "{}"
                /\ o.caught # "" => o.text \notin SuccessTexts
                /\ o.caught = "" => o.text \notin ErrorTexts

C6_Witness ==
    /\ Ran("openai")
    /\ input.r1.status = 500
    /\ out["openai"].caught = "HTTPError"
    /\ out["openai"].calls # <<>>

C6_WitnessLookalike ==
    /\ Ran("openai")
    /\ input.name = "search_contacts"
    /\ input.r1 = Response(200, TRUE, ErrorLikeBody)
    /\ out["openai"].caught = ""

\* the canonical order of the operations
CanonicalOrder ==
    <<"search_contacts", "get_contact", "create_contact", "update_contact",
      "log_interaction", "get_pipeline_summary">>

SchemaNames(schemas) == [i \in 1..Len(schemas) |-> schemas[i].name]

\* C7: the three adapters emit the same sequence of operation names, the
\* canonical order.
C7_SameOperationOrder ==
    \A a \in Adapters :
        emitted[a].called => SchemaNames(emitted[a].schemas) = CanonicalOrder

\* C8: for every operation the function-calling and the tool-use schema
\* list as required exactly the fields the input model declares without a
\* default, and a parameter's enum lists the same values in every adapter
\* that emits the parameter.
C8_RequiredAndEnumsAgree ==
    /\ \A a \in {"openai", "claude"} :
           emitted[a].called =>
               \A op \in Elements(CanonicalOrder) :
                   \E i \in 1..Len(emitted[a].schemas) :
                       /\ emitted[a].schemas[i].name = op
                       /\ Elements(emitted[a].schemas[i].required)
                              = RequiredFields(ArgsSchema(op))
    /\ \A a, b \in Adapters :
           (emitted[a].called /\ emitted[b].called) =>
               \A i \in 1..Len(emitted[a].schemas), j \in 1..Len(emitted[b].schemas) :
                   emitted[a].schemas[i].name = emitted[b].schemas[j].name =>
                       \A x \in Elements(emitted[a].schemas[i].properties),
                          y \in Elements(emitted[b].schemas[j].properties) :
                           x.name = y.name => x.enum = y.enum

ExecutionPaths == {"openai", "claude", "tool"}

\* path p ended with the operation's result, not with an error
Success(p) ==
    /\ out[p].kind = "returned"
    /\ out[p].caught = ""
    /\ p \in DispatchPaths => input.name \in Handlers

\* C9: on the same name, arguments and backend answers, the
\* function-calling handler, the tool-use handler and the tool's _run
\* issue the same backend calls and agree on success.
C9_PathsAgree ==
    \A p, q \in ExecutionPaths :
        (Ran(p) /\ Ran(q)) =>
            /\ out[p].calls = out[q].calls
            /\ Success(p) <=> Success(q)

\* C10: a tool whose backend call failed raises ToolException and returns
\* no string; a tool that returns a string made at least one backend call
\* and none of its calls failed.
C10_ToolFailureIsSignalled ==
    Ran("tool") =>
        LET o == out["tool"]
        IN  /\ SomeCallFailed(o) =>
                  (o.kind = "raised" /\ o.exc = "ToolException" /\ o.text = "")
            /\ o.kind = "returned" =>
                  (o.calls # <<>> /\ \A i \in 1..Len(o.calls) : ~CallFailed(o, i))

C10_Witness ==
    /\ Ran("tool")
    /\ input.name = "get_contact"
    /\ Len(out["tool"].calls) = 2
    /\ CallFailed(out["tool"], 2)
    /\ out["tool"].exc = "ToolException"

C10_WitnessReturned ==
    /\ Ran("tool")
    /\ input.name = "update_contact"
    /\ out["tool"].kind = "returned"
    /\ out["tool"].text = "{}"

\* the tags of TagPool up to the n-th, written as one comma-separated string
JoinedTags(n) ==
    CASE n = 1 -> "founder"
      [] n = 2 -> "founder,vc"
      [] n = 3 -> "founder,vc,angel"
      [] OTHER -> "founder,vc,angel,press"

WellFormedSearch ==
    /\ input.name = "search_contacts"
    /\ DOMAIN input.args \subseteq {"query", "status", "tags", "min_engagement", "limit"}

\* C11: search_contacts with a non-empty tag list issues one GET
\* /api/contacts whose query holds one 'tags' entry, the tags joined in
\* their order by ",", on the direct method, both handlers and the tool.
C11_TagsJoined ==
    \A p \in Paths :
        (Ran(p) /\ WellFormedSearch /\ "tags" \in DOMAIN input.args
                /\ Len(input.args["tags"]) > 1) =>
            /\ Len(out[p].calls) = 1
            /\ out[p].calls[1].method = "GET"
            /\ out[p].calls[1].path = "/api/contacts"
            /\ "tags" \in DOMAIN out[p].calls[1].payload
            /\ out[p].calls[1].payload["tags"]
                   = <<"str", JoinedTags(Len(input.args["tags"]) - 1)>>

C11_Witness ==
    /\ WellFormedSearch
    /\ "tags" \in DOMAIN input.args
    /\ input.args["tags"] = <<"list", "founder", "vc">>
    /\ \A p \in Paths : Ran(p) /\ Len(out[p].calls) = 1

WellFormedUpdate ==
    /\ input.name = "update_contact"
    /\ "contact_id" \in DOMAIN input.args
    /\ DOMAIN input.args \subseteq {"contact_id", "status", "tags", "add_tags"}

\* C12: update_contact (direct method and tool) issues exactly one PATCH
\* /api/contacts/{contact_id}; every key of its body is an argument the
\* caller supplied, with the supplied value, and contact_id is no key.
C12_PatchOnlySupplied ==
    \A p \in {"direct", "tool"} :
        (Ran(p) /\ WellFormedUpdate) =>
            /\ Len(out[p].calls) = 1
            /\ out[p].calls[1].method = "PATCH"
            /\ out[p].calls[1].path = "/api/contacts/" \o input.args["contact_id"][2]
            /\ "contact_id" \notin DOMAIN out[p].calls[1].payload
            /\ \A k \in DOMAIN out[p].calls[1].payload :
                   /\ k \in DOMAIN input.args
                   /\ out[p].calls[1].payload[k] = input.args[k]

C12_Witness ==
    /\ WellFormedUpdate
    /\ DOMAIN input.args = {"contact_id", "status"}
    /\ Ran("direct") /\ Ran("tool")
    /\ DOMAIN out["direct"].calls[1].payload = {"status"}
    /\ DOMAIN out["tool"].calls[1].payload = {"status"}

\* the errors a client method raises for a backend that failed
BackendErrors == {"HTTPError", "ConnectionError"}

\* C13: each client method (get, post, patch, delete) returns the parsed
\* body exactly when the status is in [200, 300); for every other status
\* and for a transport failure it fails with a backend error carrying the
\* status; it returns no value outside [200, 300) and raises no other
\* kind of error inside it.
C13_ClientStatusContract ==
    \A m \in ClientMethods :
        reply[m].called =>
            /\ reply[m].res.ok <=> (input.r1.status >= 200 /\ input.r1.status < 300)
            /\ reply[m].res.ok => reply[m].res.value = input.r1.body
            /\ ~reply[m].res.ok => reply[m].res.exc \in BackendErrors

\* the names an operation's parameter specification declares
DeclaredNames(name) ==
    {ParameterSpec(name).properties[i].name : i \in 1..Len(ParameterSpec(name).properties)}

\* The class of failure a dispatch of i belongs to when it fails: the name
\* has no handler; the arguments are bad or missing; or else the backend.
FailureClass(i) ==
    IF i.name \notin Handlers THEN "unknown"
    ELSE IF \/ ViolatesParameterSpec(i.name, i.args)
            \/ ~(DOMAIN i.args \subseteq DeclaredNames(i.name))
    THEN "validation"
    ELSE "backend"

\* the error results the dispatcher returns for the failures of class c
ErrorResultsOf(c) ==
    {handle_openai_function_call(i.name, i.args, i.r1, i.r2).text :
        i \in {x \in Inputs :
                 /\ FailureClass(x) = c
                 /\ \/ x.name \notin Handlers
                    \/ handle_openai_function_call(x.name, x.args, x.r1, x.r2).caught # ""}}

ErrorResultsOfValidation == ErrorResultsOf("validation")
ErrorResultsOfBackend == ErrorResultsOf("backend")
ErrorResultsOfUnknown == ErrorResultsOf("unknown")

\* C14: every error result of dispatch carries a kind and a message, and
\* the kind tells the three classes of failure apart: the error result of
\* a validation failure, of a backend failure and of an unknown operation
\* are never the same result.
C14_ErrorKindsDistinct ==
    \A p \in DispatchPaths :
        ErrorResult(p) =>
            /\ out[p].text # ""
            /\ FailureClass(input) # "validation" => out[p].text \notin ErrorResultsOfValidation
            /\ FailureClass(input) # "backend" => out[p].text \notin ErrorResultsOfBackend
            /\ FailureClass(input) # "unknown" => out[p].text \notin ErrorResultsOfUnknown

C16_FailedCallEndsOperation ==
    \A p \in Paths :
        Ran(p) =>
            LET o == out[p]
            IN  /\ \A i, j \in 1..Len(o.calls) : o.calls[i] = o.calls[j] => i = j
                /\ \A i \in 1..Len(o.calls) : CallFailed(o, i) => i = Len(o.calls)
                /\ SomeCallFailed(o) =>
                      /\ ~Success(p)
                      /\ p \in DispatchPaths => ErrorResult(p)
                      /\ p \notin DispatchPaths => o.kind = "raised"
                      /\ ~Returns(p, input.r1.body)

\* the contact GET failed: one call on every path
C16_Witness ==
    /\ WellFormedGetContact /\ WantsTimeline
    /\ ~Healthy(input.r1)
    /\ \A p \in Paths : Ran(p) /\ out[p].calls = <<ContactGet>>

\* the timeline GET failed after the contact was fetched
C16_WitnessTimeline ==
    /\ WellFormedGetContact /\ WantsTimeline
    /\ Healthy(input.r1) /\ input.r2.status = 500
    /\ \A p \in Paths : Ran(p) /\ out[p].calls = <<ContactGet, TimelineGet>>

\* C17: every HTTP session acquired when a toolkit is constructed is
\* eventually released once that toolkit's lifetime has ended, also after
\* failed operations and for the temporary toolkits of the module-level
\* get_openai_functions(base_url) and get_claude_tools(base_url).
C17_SessionsReleased ==
    \A o \in Owners :
        (toolkits[o].lifetime = "ended") ~> (toolkits[o].session = "closed")

\* the schemas adapter a emitted for the operation named name
EmittedFor(a, name) ==
    {emitted[a].schemas[i] : i \in {j \in 1..Len(emitted[a].schemas) :
                                       emitted[a].schemas[j].name = name}}

\* every name the function-calling and tool-use schemas emit has a handler
C18_EmittedNamesDispatch ==
    \A p \in DispatchPaths, a \in {"openai", "claude"} :
        (Ran(p) /\ emitted[a].called /\ EmittedFor(a, input.name) # {}) =>
            out[p].text # UnknownOperationText(input.name)

\* every operation offered as a framework tool has a handler
C18_ToolNamesDispatch ==
    \A p \in DispatchPaths :
        (Ran(p) /\ emitted["langchain"].called /\ EmittedFor("langchain", input.name) # {}) =>
            out[p].text # UnknownOperationText(input.name)

\* arguments that use advertised property names only, with every required
\* one present, are accepted by the handler: the operation gets to its
\* backend call
C18_AdvertisedPropertiesAccepted ==
    \A p \in DispatchPaths, a \in {"openai", "claude"} :
        \A sch \in EmittedFor(a, input.name) :
            (Ran(p) /\ emitted[a].called
                    /\ DOMAIN input.args
                           \subseteq {sch.properties[i].name : i \in 1..Len(sch.properties)}
                    /\ Elements(sch.required) \subseteq DOMAIN input.args) =>
                out[p].calls # <<>>

\* C18: schema and dispatch agree: every operation name an adapter emits
\* has a dispatch handler, every operation offered as a framework tool can
\* be dispatched by name, and every advertised property name is accepted
\* by the operation's handler.
C18_SchemaAndDispatchAgree ==
    /\ C18_EmittedNamesDispatch
    /\ C18_ToolNamesDispatch
    /\ C18_AdvertisedPropertiesAccepted

\* the filters of search_contacts
SearchFilters == {"query", "status", "tags", "min_engagement"}

WellFormedPipeline ==
    /\ input.name = "get_pipeline_summary"
    /\ DOMAIN input.args \subseteq {"time_range"}

\* C19: search_contacts issues exactly one GET /api/contacts whose query
\* holds 'limit' (20 when omitted) and holds each of query, status, tags
\* and min_engagement exactly when the caller supplied it, so that no
\* supplied filter is dropped, min_engagement = 0 included; and
\* get_pipeline_summary without time_range sends time_range = "30d".
C19_SearchQueryComplete ==
    \A p \in Paths :
        /\ (Ran(p) /\ WellFormedSearch) =>
              /\ Len(out[p].calls) = 1
              /\ out[p].calls[1].method = "GET"
              /\ out[p].calls[1].path = "/api/contacts"
              /\ "limit" \in DOMAIN out[p].calls[1].payload
              /\ out[p].calls[1].payload["limit"]
                     = IF "limit" \in DOMAIN input.args THEN input.args["limit"]
                       ELSE <<"int", "20">>
              /\ \A k \in SearchFilters :
                     k \in DOMAIN out[p].calls[1].payload <=> k \in DOMAIN input.args
        /\ (Ran(p) /\ WellFormedPipeline) =>
              /\ Len(out[p].calls) = 1
              /\ "time_range" \in DOMAIN out[p].calls[1].payload
              /\ "time_range" \notin DOMAIN input.args =>
                     out[p].calls[1].payload["time_range"] = <<"str", "30d">>

\* the same with the filters the code tests for truth left aside: what
\* holds of limit, of the filters that are sent and of time_range
C19_SentFiltersAreSupplied ==
    \A p \in Paths :
        /\ (Ran(p) /\ WellFormedSearch) =>
              /\ Len(out[p].calls) = 1
              /\ out[p].calls[1].payload["limit"]
                     = IF "limit" \in DOMAIN input.args THEN input.args["limit"]
                       ELSE <<"int", "20">>
              /\ \A k \in SearchFilters :
                     /\ k \in DOMAIN out[p].calls[1].payload => k \in DOMAIN input.args
                     /\ (k \in DOMAIN input.args /\ Truthy(input.args[k])) =>
                            k \in DOMAIN out[p].calls[1].payload
        /\ (Ran(p) /\ WellFormedPipeline) =>
              /\ Len(out[p].calls) = 1
              /\ "time_range" \notin DOMAIN input.args =>
                     out[p].calls[1].payload["time_range"] = <<"str", "30d">>

\* C20: the PATCH body of update_contact, on the tool and on the direct
\* method, never holds an 'add_tags' key, and the 'tags' it sends is the
\* tags value supplied, whether add_tags was supplied or not.
C20_AddTagsNeverSent ==
    \A p \in {"direct", "tool"} :
        (Ran(p) /\ WellFormedUpdate /\ Len(out[p].calls) = 1) =>
            /\ "add_tags" \notin DOMAIN out[p].calls[1].payload
            /\ "tags" \in DOMAIN out[p].calls[1].payload =>
                   /\ "tags" \in DOMAIN input.args
                   /\ out[p].calls[1].payload["tags"] = input.args["tags"]

\* the same on UpdateContactTool._run alone
C20_ToolNeverSendsAddTags ==
    (Ran("tool") /\ WellFormedUpdate /\ Len(out["tool"].calls) = 1) =>
        /\ "add_tags" \notin DOMAIN out["tool"].calls[1].payload
        /\ "tags" \in DOMAIN out["tool"].calls[1].payload =>
               /\ "tags" \in DOMAIN input.args
               /\ out["tool"].calls[1].payload["tags"] = input.args["tags"]

====
